---- MODULE Spec2Model ----
(***************************************************************************)
(* State-machine model of the read-only PostgreSQL tool gateway:           *)
(* QueryValidator (src/src/security.py), DatabaseManager                   *)
(* (src/src/database.py), Config (src/src/config.py) and the tool handlers *)
(* of PostgreSQLMCPServer (src/src/server.py).                             *)
(*                                                                         *)
(* A Python str is a sequence of one-character strings, so that upper(),   *)
(* strip(), startswith(), `in`, count() and the regular expressions are    *)
(* computed character by character as the interpreter computes them.       *)
(***************************************************************************)
EXTENDS Integers, Sequences, FiniteSets, TLC

\* ------------------------------------------------------------------ text

LowerLetters ==
    <<"a", "b", "c", "d", "e", "f", "g", "h", "i", "j", "k", "l", "m", "n", "o", "p",
    "q", "r", "s", "t", "u", "v", "w", "x", "y", "z">>
UpperLetters ==
    <<"A", "B", "C", "D", "E", "F", "G", "H", "I", "J", "K", "L", "M", "N", "O", "P",
    "Q", "R", "S", "T", "U", "V", "W", "X", "Y", "Z">>
DigitChars ==
    <<"0", "1", "2", "3", "4", "5", "6", "7", "8", "9">>
kw_SELECT == <<"S", "E", "L", "E", "C", "T">>
kw_LIMIT == <<"L", "I", "M", "I", "T">>
kw_UNION == <<"U", "N", "I", "O", "N">>
kw_OR == <<"O", "R">>
kw_XP_CMDSHELL == <<"X", "P", "_", "C", "M", "D", "S", "H", "E", "L", "L">>
kw_SP_EXECUTESQL == <<"S", "P", "_", "E", "X", "E", "C", "U", "T", "E", "S", "Q", "L">>
kw_INSERT == <<"I", "N", "S", "E", "R", "T">>
kw_UPDATE == <<"U", "P", "D", "A", "T", "E">>
kw_DELETE == <<"D", "E", "L", "E", "T", "E">>
kw_DROP == <<"D", "R", "O", "P">>
kw_CREATE == <<"C", "R", "E", "A", "T", "E">>
kw_ALTER == <<"A", "L", "T", "E", "R">>
kw_TRUNCATE == <<"T", "R", "U", "N", "C", "A", "T", "E">>
kw_GRANT == <<"G", "R", "A", "N", "T">>
kw_REVOKE == <<"R", "E", "V", "O", "K", "E">>
kw_EXEC == <<"E", "X", "E", "C">>
kw_EXECUTE == <<"E", "X", "E", "C", "U", "T", "E">>
kw_CALL == <<"C", "A", "L", "L">>
kw_PROCEDURE == <<"P", "R", "O", "C", "E", "D", "U", "R", "E">>
kw_FUNCTION == <<"F", "U", "N", "C", "T", "I", "O", "N">>
kw_TRIGGER == <<"T", "R", "I", "G", "G", "E", "R">>
kw_SCHEMA == <<"S", "C", "H", "E", "M", "A">>
kw_DATABASE == <<"D", "A", "T", "A", "B", "A", "S", "E">>
TABLE_NAMES_QUERY ==
    <<"\n", " ", " ", " ", " ", " ", " ", " ", " ", "S", "E", "L", "E", "C", "T", " ",
    "t", "a", "b", "l", "e", "_", "n", "a", "m", "e", " ", "\n", " ", " ", " ", " ",
    " ", " ", " ", " ", "F", "R", "O", "M", " ", "i", "n", "f", "o", "r", "m", "a",
    "t", "i", "o", "n", "_", "s", "c", "h", "e", "m", "a", ".", "t", "a", "b", "l",
    "e", "s", " ", "\n", " ", " ", " ", " ", " ", " ", " ", " ", "W", "H", "E", "R",
    "E", " ", "t", "a", "b", "l", "e", "_", "s", "c", "h", "e", "m", "a", " ", "=",
    " ", "'", "p", "u", "b", "l", "i", "c", "'", " ", "\n", " ", " ", " ", " ", " ",
    " ", " ", " ", "O", "R", "D", "E", "R", " ", "B", "Y", " ", "t", "a", "b", "l",
    "e", "_", "n", "a", "m", "e", ";", "\n", " ", " ", " ", " ", " ", " ", " ", " ">>
DESCRIBE_TABLE_QUERY ==
    <<"\n", " ", " ", " ", " ", " ", " ", " ", " ", "S", "E", "L", "E", "C", "T", " ",
    "\n", " ", " ", " ", " ", " ", " ", " ", " ", " ", " ", " ", " ", "c", "o", "l",
    "u", "m", "n", "_", "n", "a", "m", "e", ",", "\n", " ", " ", " ", " ", " ", " ",
    " ", " ", " ", " ", " ", " ", "d", "a", "t", "a", "_", "t", "y", "p", "e", ",",
    "\n", " ", " ", " ", " ", " ", " ", " ", " ", " ", " ", " ", " ", "i", "s", "_",
    "n", "u", "l", "l", "a", "b", "l", "e", ",", "\n", " ", " ", " ", " ", " ", " ",
    " ", " ", " ", " ", " ", " ", "c", "o", "l", "u", "m", "n", "_", "d", "e", "f",
    "a", "u", "l", "t", ",", "\n", " ", " ", " ", " ", " ", " ", " ", " ", " ", " ",
    " ", " ", "c", "h", "a", "r", "a", "c", "t", "e", "r", "_", "m", "a", "x", "i",
    "m", "u", "m", "_", "l", "e", "n", "g", "t", "h", "\n", " ", " ", " ", " ", " ",
    " ", " ", " ", "F", "R", "O", "M", " ", "i", "n", "f", "o", "r", "m", "a", "t",
    "i", "o", "n", "_", "s", "c", "h", "e", "m", "a", ".", "c", "o", "l", "u", "m",
    "n", "s", " ", "\n", " ", " ", " ", " ", " ", " ", " ", " ", "W", "H", "E", "R",
    "E", " ", "t", "a", "b", "l", "e", "_", "n", "a", "m", "e", " ", "=", " ", "%",
    "s", " ", "A", "N", "D", " ", "t", "a", "b", "l", "e", "_", "s", "c", "h", "e",
    "m", "a", " ", "=", " ", "'", "p", "u", "b", "l", "i", "c", "'", "\n", " ", " ",
    " ", " ", " ", " ", " ", " ", "O", "R", "D", "E", "R", " ", "B", "Y", " ", "o",
    "r", "d", "i", "n", "a", "l", "_", "p", "o", "s", "i", "t", "i", "o", "n", ";",
    "\n", " ", " ", " ", " ", " ", " ", " ", " ">>
COUNT_QUERY_PREFIX ==
    <<"S", "E", "L", "E", "C", "T", " ", "C", "O", "U", "N", "T", "(", "*", ")", " ",
    "a", "s", " ", "c", "o", "u", "n", "t", " ", "F", "R", "O", "M", " ">>
LIMIT_INFIX ==
    <<" ", "L", "I", "M", "I", "T", " ">>

\* ------------------------------------------------------ program constants

\* len(table_name) > 63
MAX_TABLE_NAME_LEN == 63

\* DatabaseManager.__init__(..., max_retries: int = 3)
DEFAULT_MAX_RETRIES == 3

\* execute_query(..., limit: int = 1000) and arguments.get("limit", 1000)
DEFAULT_LIMIT == 1000

\* int(os.getenv('MAX_QUERY_ROWS', '1000'))
DEFAULT_MAX_QUERY_ROWS == 1000

\* "maximum" of limit in execute_select's inputSchema
LIMIT_SCHEMA_MAXIMUM == 10000


\* str.upper() on one character (ASCII letters; every other character of the
\* model's alphabet is left as it is).
ToUpper ==
    [c \in {LowerLetters[i] : i \in 1..Len(LowerLetters)} |->
        UpperLetters[CHOOSE i \in 1..Len(LowerLetters) : LowerLetters[i] = c]]

UpperChar(c) == IF c \in DOMAIN ToUpper THEN ToUpper[c] ELSE c

ToLower ==
    [c \in {UpperLetters[i] : i \in 1..Len(UpperLetters)} |->
        LowerLetters[CHOOSE i \in 1..Len(UpperLetters) : UpperLetters[i] = c]]

LowerChar(c) == IF c \in DOMAIN ToLower THEN ToLower[c] ELSE c

\* str.upper()
upper(s) == SubSeq([i \in 1..Len(s) |-> UpperChar(s[i])], 1, Len(s))

\* The characters str.strip() removes and the regular expressions' \s matches.
Whitespace == {" ", "\t", "\n", "\r"}

AlphaChars ==
    {LowerLetters[i] : i \in 1..Len(LowerLetters)}
        \cup {UpperLetters[i] : i \in 1..Len(UpperLetters)}

IsAlpha(c) == c \in AlphaChars

IsDigit(c) == c \in {DigitChars[i] : i \in 1..Len(DigitChars)}

\* str.strip(): leading and trailing whitespace removed.
strip(s) ==
    LET keep == {i \in 1..Len(s) : s[i] \notin Whitespace}
    IN  IF keep = {} THEN <<>>
        ELSE SubSeq(s, CHOOSE i \in keep : \A j \in keep : i <= j,
                       CHOOSE i \in keep : \A j \in keep : j <= i)

\* str.rstrip(';'): every trailing semicolon removed.
rstrip_semicolon(s) ==
    LET keep == {i \in 1..Len(s) : s[i] # ";"}
    IN  IF keep = {} THEN <<>>
        ELSE SubSeq(s, 1, CHOOSE i \in keep : \A j \in keep : j <= i)

\* str.startswith(p)
startswith(s, p) == Len(s) >= Len(p) /\ SubSeq(s, 1, Len(p)) = p

\* s[i:] starts with p (1-based i).
MatchAt(s, i, p) ==
    /\ i + Len(p) - 1 <= Len(s)
    /\ s[i] = p[1]
    /\ SubSeq(s, i, i + Len(p) - 1) = p

\* `k in s` for strings: substring containment.
contains(s, k) == \E i \in 1..(Len(s) - Len(k) + 1) : MatchAt(s, i, k)

\* str.count(c) for a one-character c.
count(s, c) == Cardinality({i \in 1..Len(s) : s[i] = c})

\* Where \s* stops when it starts at i: the first position from i on that
\* holds no whitespace, Len(s) + 1 when there is none. (What follows \s* in
\* every pattern is a literal that starts with no whitespace, so the match
\* continues there or nowhere.)
SkipSpace(s, i) ==
    LET stops == {j \in i..Len(s) : s[j] \notin Whitespace}
    IN  IF stops = {} THEN Len(s) + 1
        ELSE CHOOSE j \in stops : \A k \in stops : j <= k

\* re.search of  a \s* b  (a, b literal) in s.
SearchSpaced(s, a, b) ==
    \E i \in 1..Len(s) :
        MatchAt(s, i, a) /\ MatchAt(s, SkipSpace(s, i + Len(a)), b)

\* str(n) for an integer n: decimal digits, with a minus sign when negative.
RECURSIVE NatStr(_)
NatStr(n) ==
    IF n < 10 THEN <<DigitChars[n + 1]>>
    ELSE NatStr(n \div 10) \o <<DigitChars[(n % 10) + 1]>>

IntStr(n) == IF n < 0 THEN <<"-">> \o NatStr(0 - n) ELSE NatStr(n)

\* --------------------------------------------------------- QueryValidator

\* BLOCKED_KEYWORDS is a Python set of str: its iteration order is fixed
\* within one process and differs between processes (hash randomisation).
\* KeywordOrders are the iteration orders the model lets a process have.
BLOCKED_KEYWORDS ==
    <<kw_INSERT, kw_UPDATE, kw_DELETE, kw_DROP, kw_CREATE, kw_ALTER,
      kw_TRUNCATE, kw_GRANT, kw_REVOKE, kw_EXEC, kw_EXECUTE, kw_CALL,
      kw_PROCEDURE, kw_FUNCTION, kw_TRIGGER, kw_SCHEMA, kw_DATABASE>>

Reverse(s) == [i \in 1..Len(s) |-> s[Len(s) + 1 - i]]

KeywordOrders == {BLOCKED_KEYWORDS, Reverse(BLOCKED_KEYWORDS)}

\* The alternation of the first injection pattern.
MUTATING_KEYWORDS ==
    {kw_DROP, kw_DELETE, kw_UPDATE, kw_INSERT, kw_CREATE, kw_ALTER, kw_TRUNCATE}

\* re.search(pattern, query, re.IGNORECASE) for any pattern of
\* INJECTION_PATTERNS; u is the query with its letters upper-cased, against
\* which the upper-cased literals are matched.
InjectionMatch(u) ==
    \/ \E k \in MUTATING_KEYWORDS : SearchSpaced(u, <<";">>, k)
    \/ contains(u, <<"-", "-">>)
    \/ \E i \in 1..Len(u) :
          /\ MatchAt(u, i, <<"/", "*">>)
          /\ \E j \in (i + 2)..Len(u) :
                /\ MatchAt(u, j, <<"*", "/">>)
                /\ \A k \in (i + 2)..(j - 1) : u[k] # "\n"
    \/ \E i \in 1..Len(u) :
          /\ MatchAt(u, i, kw_UNION)
          /\ SkipSpace(u, i + Len(kw_UNION)) > i + Len(kw_UNION)
          /\ MatchAt(u, SkipSpace(u, i + Len(kw_UNION)), kw_SELECT)
    \/ \E i \in 1..Len(u) :
          /\ u[i] = "'"
          /\ MatchAt(u, SkipSpace(u, i + 1), kw_OR)
          /\ MatchAt(u, SkipSpace(u, SkipSpace(u, i + 1) + Len(kw_OR)), <<"'">>)
    \/ SearchSpaced(u, <<"'">>, <<";">>)
    \/ contains(u, kw_XP_CMDSHELL)
    \/ contains(u, kw_SP_EXECUTESQL)

\* A (is_valid, error_message) pair; the message is its fixed text and, for
\* the blocked-keyword message, the keyword formatted into it.
Verdict(ok, msg, arg) == [is_valid |-> ok, error_message |-> msg, keyword |-> arg]

\* validate_query without its empty-query rule.
validate_query_no_empty_rule(query, order) ==
    LET query_upper == strip(upper(query))
        hits == {k \in 1..Len(order) : contains(query_upper, order[k])}
    IN  IF ~startswith(query_upper, kw_SELECT)
        THEN Verdict(FALSE, "Only SELECT queries are allowed", <<>>)
        ELSE IF hits # {}
        THEN Verdict(FALSE, "Blocked keyword '{keyword}' found in query",
                     order[CHOOSE k \in hits : \A h \in hits : k <= h])
        ELSE IF InjectionMatch(upper(query))
        THEN Verdict(FALSE, "Potentially malicious pattern detected", <<>>)
        ELSE IF count(query, ";") > 1
        THEN Verdict(FALSE, "Multiple statements not allowed", <<>>)
        ELSE Verdict(TRUE, "", <<>>)

\* validate_query without its SELECT-prefix rule.
validate_query_no_prefix(query, order) ==
    IF query = <<>> \/ strip(query) = <<>>
    THEN Verdict(FALSE, "Empty query not allowed", <<>>)
    ELSE
    LET query_upper == strip(upper(query))
        hits == {k \in 1..Len(order) : contains(query_upper, order[k])}
    IN  IF hits # {}
        THEN Verdict(FALSE, "Blocked keyword '{keyword}' found in query",
                     order[CHOOSE k \in hits : \A h \in hits : k <= h])
        ELSE IF InjectionMatch(upper(query))
        THEN Verdict(FALSE, "Potentially malicious pattern detected", <<>>)
        ELSE IF count(query, ";") > 1
        THEN Verdict(FALSE, "Multiple statements not allowed", <<>>)
        ELSE Verdict(TRUE, "", <<>>)

\* validate_query looking for the keywords as whole words instead of as
\* substrings.
validate_query_whole_words(query, order) ==
    IF query = <<>> \/ strip(query) = <<>>
    THEN Verdict(FALSE, "Empty query not allowed", <<>>)
    ELSE
    LET query_upper == strip(upper(query))
        wordchar(c) == IsAlpha(c) \/ IsDigit(c) \/ c = "_"
        word(k) ==
            \E i \in 1..Len(query_upper) :
                /\ MatchAt(query_upper, i, order[k])
                /\ (i = 1 \/ ~wordchar(query_upper[i - 1]))
                /\ (i + Len(order[k]) > Len(query_upper)
                        \/ ~wordchar(query_upper[i + Len(order[k])]))
        hits == {k \in 1..Len(order) : word(k)}
    IN  IF ~startswith(query_upper, kw_SELECT)
        THEN Verdict(FALSE, "Only SELECT queries are allowed", <<>>)
        ELSE IF hits # {}
        THEN Verdict(FALSE, "Blocked keyword '{keyword}' found in query",
                     order[CHOOSE k \in hits : \A h \in hits : k <= h])
        ELSE IF InjectionMatch(upper(query))
        THEN Verdict(FALSE, "Potentially malicious pattern detected", <<>>)
        ELSE IF count(query, ";") > 1
        THEN Verdict(FALSE, "Multiple statements not allowed", <<>>)
        ELSE Verdict(TRUE, "", <<>>)

\* QueryValidator.validate_query in a process whose BLOCKED_KEYWORDS iterates
\* in `order`.
\* validate_query refusing a text as soon as it holds one semicolon.
validate_query_no_semicolon(query, order) ==
    IF query = <<>> \/ strip(query) = <<>>
    THEN Verdict(FALSE, "Empty query not allowed", <<>>)
    ELSE
    LET query_upper == strip(upper(query))
        hits == {k \in 1..Len(order) : contains(query_upper, order[k])}
    IN  IF ~startswith(query_upper, kw_SELECT)
        THEN Verdict(FALSE, "Only SELECT queries are allowed", <<>>)
        ELSE IF hits # {}
        THEN Verdict(FALSE, "Blocked keyword '{keyword}' found in query",
                     order[CHOOSE k \in hits : \A h \in hits : k <= h])
        ELSE IF InjectionMatch(upper(query))
        THEN Verdict(FALSE, "Potentially malicious pattern detected", <<>>)
        ELSE IF count(query, ";") > 0
        THEN Verdict(FALSE, "Multiple statements not allowed", <<>>)
        ELSE Verdict(TRUE, "", <<>>)

\* validate_query with the pattern loop run before the keyword loop.
validate_query_patterns_first(query, order) ==
    IF query = <<>> \/ strip(query) = <<>>
    THEN Verdict(FALSE, "Empty query not allowed", <<>>)
    ELSE
    LET query_upper == strip(upper(query))
        hits == {k \in 1..Len(order) : contains(query_upper, order[k])}
    IN  IF ~startswith(query_upper, kw_SELECT)
        THEN Verdict(FALSE, "Only SELECT queries are allowed", <<>>)
        ELSE IF InjectionMatch(upper(query))
        THEN Verdict(FALSE, "Potentially malicious pattern detected", <<>>)
        ELSE IF hits # {}
        THEN Verdict(FALSE, "Blocked keyword '{keyword}' found in query",
                     order[CHOOSE k \in hits : \A h \in hits : k <= h])
        ELSE IF count(query, ";") > 1
        THEN Verdict(FALSE, "Multiple statements not allowed", <<>>)
        ELSE Verdict(TRUE, "", <<>>)

\* validate_query with the keyword loop run before the SELECT prefix test.
validate_query_keywords_first(query, order) ==
    IF query = <<>> \/ strip(query) = <<>>
    THEN Verdict(FALSE, "Empty query not allowed", <<>>)
    ELSE
    LET query_upper == strip(upper(query))
        hits == {k \in 1..Len(order) : contains(query_upper, order[k])}
    IN  IF hits # {}
        THEN Verdict(FALSE, "Blocked keyword '{keyword}' found in query",
                     order[CHOOSE k \in hits : \A h \in hits : k <= h])
        ELSE IF ~startswith(query_upper, kw_SELECT)
        THEN Verdict(FALSE, "Only SELECT queries are allowed", <<>>)
        ELSE IF InjectionMatch(upper(query))
        THEN Verdict(FALSE, "Potentially malicious pattern detected", <<>>)
        ELSE IF count(query, ";") > 1
        THEN Verdict(FALSE, "Multiple statements not allowed", <<>>)
        ELSE Verdict(TRUE, "", <<>>)

validate_query(query, order) ==
    IF query = <<>> \/ strip(query) = <<>>
    THEN Verdict(FALSE, "Empty query not allowed", <<>>)
    ELSE
    LET query_upper == strip(upper(query))
        hits == {k \in 1..Len(order) : contains(query_upper, order[k])}
    IN  IF ~startswith(query_upper, kw_SELECT)
        THEN Verdict(FALSE, "Only SELECT queries are allowed", <<>>)
        ELSE IF hits # {}
        THEN Verdict(FALSE, "Blocked keyword '{keyword}' found in query",
                     order[CHOOSE k \in hits : \A h \in hits : k <= h])
        ELSE IF InjectionMatch(upper(query))
        THEN Verdict(FALSE, "Potentially malicious pattern detected", <<>>)
        ELSE IF count(query, ";") > 1
        THEN Verdict(FALSE, "Multiple statements not allowed", <<>>)
        ELSE Verdict(TRUE, "", <<>>)

\* QueryValidator.sanitize_table_name. re.match with ^...$: the $ matches at
\* the end of the string and also just before a newline that ends it.
IsNameStart(c) == IsAlpha(c) \/ c = "_"

IsNameChar(c) == IsAlpha(c) \/ IsDigit(c) \/ c = "_"

NamePatternMatch(s) ==
    \E n \in {Len(s)} \cup {k \in {Len(s) - 1} : k >= 1 /\ s[Len(s)] = "\n"} :
        /\ n >= 1
        /\ IsNameStart(s[1])
        /\ \A i \in 2..n : IsNameChar(s[i])

\* sanitize_table_name with the length compared by >= instead of >.
sanitize_table_name_off_by_one(table_name) ==
    IF table_name = <<>>
    THEN Verdict(FALSE, "Table name cannot be empty", <<>>)
    ELSE IF ~NamePatternMatch(table_name)
    THEN Verdict(FALSE, "Invalid table name format", <<>>)
    ELSE IF Len(table_name) >= MAX_TABLE_NAME_LEN
    THEN Verdict(FALSE, "Table name too long", <<>>)
    ELSE Verdict(TRUE, "", <<>>)

sanitize_table_name(table_name) ==
    IF table_name = <<>>
    THEN Verdict(FALSE, "Table name cannot be empty", <<>>)
    ELSE IF ~NamePatternMatch(table_name)
    THEN Verdict(FALSE, "Invalid table name format", <<>>)
    ELSE IF Len(table_name) > MAX_TABLE_NAME_LEN
    THEN Verdict(FALSE, "Table name too long", <<>>)
    ELSE Verdict(TRUE, "", <<>>)

ch_select_x ==
    <<"S", "E", "L", "E", "C", "T", " ", "x">>
ch_select_lower ==
    <<"s", "e", "l", "e", "c", "t", " ", "y">>
ch_space ==
    <<" ">>
ch_newline ==
    <<"\n">>
ch_semicolon ==
    <<";">>
ch_limit_5 ==
    <<" ", "L", "I", "M", "I", "T", " ", "5">>
ch_limits_ident ==
    <<",", " ", "l", "i", "m", "i", "t", "s">>
ch_drop_t ==
    <<"D", "R", "O", "P", " ", "t">>
ch_update_count ==
    <<",", " ", "u", "p", "d", "a", "t", "e", "_", "c", "o", "u", "n", "t">>
ch_into_t ==
    <<" ", "I", "N", "T", "O", " ", "t">>
ch_comment ==
    <<"-", "-">>
ch_quote ==
    <<"'">>
ex_test4 ==
    <<"S", "E", "L", "E", "C", "T", " ", "i", "d", ",", " ", "u", "r", "l", ",", " ",
    "t", "i", "t", "l", "e", " ", "F", "R", "O", "M", " ", "w", "e", "b", "_", "i",
    "t", "e", "m", "s", " ", "O", "R", "D", "E", "R", " ", "B", "Y", " ", "i", "d",
    " ", "L", "I", "M", "I", "T", " ", "3">>
ex_test5 ==
    <<"D", "R", "O", "P", " ", "T", "A", "B", "L", "E", " ", "w", "e", "b", "_", "i",
    "t", "e", "m", "s", ";", " ", "S", "E", "L", "E", "C", "T", " ", "*", " ", "F",
    "R", "O", "M", " ", "w", "e", "b", "_", "i", "t", "e", "m", "s">>
\* Two SELECT statements with one semicolon between them.
ex_two_statements ==
    ch_select_x \o ch_semicolon \o ch_select_lower
QueryChunks ==
    {ch_select_x, ch_select_lower, ch_space, ch_newline, ch_semicolon,
     ch_limit_5, ch_limits_ident, ch_drop_t, ch_update_count, ch_into_t,
     ch_comment, ch_quote, ex_test4, ex_test5}

\* ----------------------------------------------------------------- inputs

\* Bounds of the enumerated inputs: chunks per query text and characters per
\* table name, for the validator run on its own and for the tool calls.
MaxChunks == 2

MaxNameLen == 2

MaxCallChunks == 2

MaxCallNameLen == 2

\* Every concatenation of at most n of the chunks.
RECURSIVE Concats(_, _)
Concats(chunks, n) ==
    IF n = 0 THEN {<<>>}
    ELSE Concats(chunks, n - 1)
            \cup {t \o c : t \in Concats(chunks, n - 1), c \in chunks}

\* Every string of at most n of the characters.
RECURSIVE Strings(_, _)
Strings(chars, n) ==
    IF n = 0 THEN {<<>>}
    ELSE Strings(chars, n - 1)
            \cup {<<c>> \o t : t \in Strings(chars, n - 1), c \in chars}

Fill(n) == [i \in 1..n |-> "a"]

\* str.lower(), and the same with the first letter left in upper case.
lower(s) == SubSeq([i \in 1..Len(s) |-> LowerChar(s[i])], 1, Len(s))

Capitalized(s) == <<s[1]>> \o lower(Tail(s))

\* Each blocked keyword in upper, lower and mixed case, as a word of its own
\* and inside a longer identifier.
KeywordQueries ==
    {ch_select_x \o pre \o k \o post :
        pre \in {<<" ">>, <<",", " ", "m", "y", "_">>},
        post \in {<<>>, <<"_", "c", "o", "u", "n", "t">>},
        k \in UNION {{BLOCKED_KEYWORDS[i], lower(BLOCKED_KEYWORDS[i]),
                      Capitalized(BLOCKED_KEYWORDS[i])} :
                        i \in 1..Len(BLOCKED_KEYWORDS)}}

\* The query of the spec's example of a UNION.
ex_union ==
    <<"S", "E", "L", "E", "C", "T", " ", "*", " ", "F", "R", "O", "M", " ",
      "a", " ", "U", "N", "I", "O", "N", " ", "S", "E", "L", "E", "C", "T",
      " ", "*", " ", "F", "R", "O", "M", " ", "b">>

\* Instances of what INJECTION_PATTERNS looks for, in several letter cases.
InjectionSamples ==
    {<<"-", "-">>,
     <<"/", "*", " ", "c", " ", "*", "/">>,
     <<"/", "*", "\n", "*", "/">>,
     <<"U", "N", "I", "O", "N", " ", "S", "E", "L", "E", "C", "T", " ", "1">>,
     <<"u", "n", "i", "o", "n", "\t", "s", "e", "l", "e", "c", "t", " ", "1">>,
     <<"U", "n", "i", "o", "n", " ", " ", "S", "e", "l", "e", "c", "t", " ", "1">>,
     <<"'", " ", "O", "R", " ", "'">>,
     <<"'", "o", "r", "'">>,
     <<"'", ";">>,
     <<"'", " ", ";">>,
     <<"x", "p", "_", "c", "m", "d", "s", "h", "e", "l", "l">>,
     <<"X", "P", "_", "C", "m", "d", "S", "h", "e", "l", "l">>,
     <<"s", "p", "_", "e", "x", "e", "c", "u", "t", "e", "s", "q", "l">>,
     <<"S", "p", "_", "E", "x", "e", "c", "u", "t", "e", "S", "q", "l">>}

InjectionQueries ==
    {ex_union} \cup {ch_select_x \o <<" ">> \o p : p \in InjectionSamples}

\* A SELECT followed by a semicolon and a statement that changes the
\* database: the spec's example, and each keyword of the first injection
\* pattern in upper and lower case after a semicolon and optional whitespace.
ex_stacked ==
    <<"S", "E", "L", "E", "C", "T", " ", "*", " ", "F", "R", "O", "M", " ",
      "t", ";", " ", "D", "R", "O", "P", " ", "T", "A", "B", "L", "E", " ", "t">>

StackedQueries ==
    {ex_stacked}
        \cup {ch_select_x \o <<";">> \o sp \o k \o <<" ", "t">> :
                sp \in {<<>>, <<" ">>, <<"\n", " ">>},
                k \in MUTATING_KEYWORDS \cup {lower(w) : w \in MUTATING_KEYWORDS}}

\* SELECT texts with more than one semicolon and nothing else amiss.
ManySemicolonQueries ==
    {ch_select_x \o ch_semicolon \o ch_semicolon,
     ex_two_statements \o ch_semicolon,
     ch_select_x \o ch_semicolon \o ch_space \o ch_semicolon \o ch_semicolon}

\* A text of whitespace only.
ex_blank == <<" ", "\t", "\n", "\r">>

\* Query texts given to the validator.
Queries ==
    Concats(QueryChunks, MaxChunks) \cup KeywordQueries \cup InjectionQueries
        \cup StackedQueries \cup ManySemicolonQueries
        \cup {ex_blank, ex_two_statements}

\* Table names given to the validator: short strings, and each of them after
\* a run of letters that brings the length to the limit of
\* sanitize_table_name.
NameChars == {"a", "Z", "_", "7", "-", ".", " ", "\n"}

TableNames ==
    Strings(NameChars, MaxNameLen)
        \cup {Fill(MAX_TABLE_NAME_LEN - 1) \o t : t \in Strings(NameChars, MaxNameLen)}

\* Query texts and table names the tool calls carry.
CallChunks ==
    {ch_select_x, ch_select_lower, ch_space, ch_semicolon, ch_limit_5,
     ch_limits_ident, ch_drop_t, ch_into_t}

CallQueries ==
    Concats(CallChunks, MaxCallChunks)
        \cup InjectionQueries \cup ManySemicolonQueries
        \cup {ex_test4, ex_test5, ch_newline, ex_blank, ex_two_statements, ex_stacked}

CallNameChars == {"a", "_", "7", "-", "\n"}

CallTableNames == Strings(CallNameChars, MaxCallNameLen)

\* ------------------------------------------------------------ Python values

\* A value of a tool argument: a str, an int, or the key being absent.
PyStr(s) == [str |-> s]

PyInt(n) == [int |-> n]

Absent == [absent |-> TRUE]

IsStr(v) == DOMAIN v = {"str"}

IsInt(v) == DOMAIN v = {"int"}

\* dict.get(key, default)
get(arguments, key, default) ==
    IF arguments[key] = Absent THEN default ELSE arguments[key]

\* An exception in flight (NoExc: none) and a raised one.
NoExc == [type |-> "none", message |-> ""]

Raise(type, message) == [type |-> type, message |-> message]

\* types.TextContent(type="text", text=...): the format string of the text
\* and the value formatted into it.
TextContent(text, detail) == [text |-> text, detail |-> detail]

NoValue == [none |-> TRUE]

\* max() where the handler calls min(): the larger of the two.
Max(a, b) == IF a >= b THEN a ELSE b

Min(a, b) == IF a <= b THEN a ELSE b

RECURSIVE Pow2(_)
Pow2(n) == IF n = 0 THEN 1 ELSE 2 * Pow2(n - 1)

\* ---------------------------------------------------------- DatabaseManager

\* The manager's fields (creds: _db_credentials, conn: _connection) threaded
\* through one tool call, with what the call has done so far: requests to the
\* secrets backend, connect attempts, time.sleep delays, statements handed to
\* cursor.execute (each with the params and the limit execute_query was
\* called with), rollbacks; answers are the answers the secrets backend and
\* psycopg.connect gave, in order; exc is the exception in flight, value the
\* value returned.
NoCreds == "None"

Creds == "credentials"

StartRun(creds, conn) ==
    [creds |-> creds, conn |-> conn, secret_calls |-> 0, connect_calls |-> 0,
     answers |-> <<>>, sleeps |-> <<>>, executed |-> <<>>, rollbacks |-> 0,
     exc |-> NoExc, value |-> NoValue]

\* Every function below that reaches the secrets backend or the database
\* yields the set of runs it can end with, one for each way the environment
\* can answer: get_secret_value succeeds, raises ClientError or raises
\* anything else; psycopg.connect succeeds, raises psycopg.Error or raises
\* anything else; cursor.execute returns rows, raises psycopg.Error or the
\* lines after it raise anything else (a statement that leaves
\* cursor.description None).

\* The retry loop of get_secret sleeping after the last attempt as well.
RECURSIVE secret_loop_sleeps_before_raise(_, _, _)
secret_loop_sleeps_before_raise(r, max_retries, attempt) ==
    IF attempt >= max_retries THEN {r}
    ELSE
    LET called == [r EXCEPT !.secret_calls = @ + 1]
        failed == [called EXCEPT !.answers = Append(@, "ClientError"),
                                 !.sleeps = Append(@, Pow2(attempt))]
    IN  {[called EXCEPT !.creds = Creds, !.answers = Append(@, "SecretString")]}
        \cup {[called EXCEPT !.exc = Raise("BotoCoreError", ""),
                             !.answers = Append(@, "BotoCoreError")]}
        \cup IF attempt = max_retries - 1
             THEN {[failed EXCEPT !.exc =
                     Raise("Exception", "Failed to retrieve secret after {max_retries} attempts: {e}")]}
             ELSE secret_loop_sleeps_before_raise(failed, max_retries, attempt + 1)

\* DatabaseManager.get_secret: the retry loop from `attempt` on.
RECURSIVE secret_loop(_, _, _)
secret_loop(r, max_retries, attempt) ==
    IF attempt >= max_retries THEN {r}
    ELSE
    LET called == [r EXCEPT !.secret_calls = @ + 1]
        failed == [called EXCEPT !.answers = Append(@, "ClientError")]
    IN  {[called EXCEPT !.creds = Creds, !.answers = Append(@, "SecretString")]}
        \cup {[called EXCEPT !.exc = Raise("BotoCoreError", ""),
                             !.answers = Append(@, "BotoCoreError")]}
        \cup IF attempt = max_retries - 1
             THEN {[failed EXCEPT !.exc =
                     Raise("Exception", "Failed to retrieve secret after {max_retries} attempts: {e}")]}
             ELSE secret_loop([failed EXCEPT !.sleeps = Append(@, Pow2(attempt))],
                              max_retries, attempt + 1)

\* get_secret asking the secrets backend on every call.
get_secret_uncached(r, max_retries) == secret_loop(r, max_retries, 0)

get_secret(r, max_retries) ==
    IF r.creds # NoCreds THEN {r} ELSE secret_loop(r, max_retries, 0)

\* The values of _connection that report themselves not closed: "open", and
\* "aborted" for an open connection whose transaction a failed statement has
\* aborted (the server refuses every statement on it until a rollback).
NotClosed == {"open", "aborted"}

\* The connect loop sleeping one unit after every failed attempt.
RECURSIVE connect_loop_constant_delay(_, _, _)
connect_loop_constant_delay(r, max_retries, attempt) ==
    IF attempt >= max_retries THEN {r}
    ELSE IF r.creds = NoCreds
    THEN {[r EXCEPT !.exc = Raise("TypeError", "'NoneType' object is not subscriptable")]}
    ELSE
    LET called == [r EXCEPT !.connect_calls = @ + 1]
        failed == [called EXCEPT !.answers = Append(@, "psycopg.Error")]
    IN  {[called EXCEPT !.conn = "open", !.answers = Append(@, "Connection")]}
        \cup {[called EXCEPT !.exc = Raise("KeyError", ""),
                             !.answers = Append(@, "KeyError")]}
        \cup IF attempt = max_retries - 1
             THEN {[failed EXCEPT !.exc =
                     Raise("Exception", "Failed to connect to database after {max_retries} attempts: {e}")]}
             ELSE connect_loop_constant_delay([failed EXCEPT !.sleeps = Append(@, 1)],
                                              max_retries, attempt + 1)

\* DatabaseManager.get_connection: the connect loop from `attempt` on.
RECURSIVE connect_loop(_, _, _)
connect_loop(r, max_retries, attempt) ==
    IF attempt >= max_retries THEN {r}
    ELSE IF r.creds = NoCreds
    THEN {[r EXCEPT !.exc = Raise("TypeError", "'NoneType' object is not subscriptable")]}
    ELSE
    LET called == [r EXCEPT !.connect_calls = @ + 1]
        failed == [called EXCEPT !.answers = Append(@, "psycopg.Error")]
    IN  {[called EXCEPT !.conn = "open", !.answers = Append(@, "Connection")]}
        \cup {[called EXCEPT !.exc = Raise("KeyError", ""),
                             !.answers = Append(@, "KeyError")]}
        \cup IF attempt = max_retries - 1
             THEN {[failed EXCEPT !.exc =
                     Raise("Exception", "Failed to connect to database after {max_retries} attempts: {e}")]}
             ELSE connect_loop([failed EXCEPT !.sleeps = Append(@, Pow2(attempt))],
                               max_retries, attempt + 1)

\* get_connection connecting anew on every call.
get_connection_always_new(r, max_retries) ==
    UNION {IF r1.exc # NoExc THEN {r1} ELSE connect_loop(r1, max_retries, 0) :
             r1 \in get_secret(r, max_retries)}

get_connection(r, max_retries) ==
    IF r.conn \in NotClosed THEN {r}
    ELSE UNION {IF r1.exc # NoExc THEN {r1} ELSE connect_loop(r1, max_retries, 0) :
                  r1 \in get_secret(r, max_retries)}

\* int(text) for a string of decimal digits.
RECURSIVE ParseNat(_)
ParseNat(ds) ==
    IF ds = <<>> THEN 0
    ELSE 10 * ParseNat(SubSeq(ds, 1, Len(ds) - 1))
            + ((CHOOSE i \in 1..Len(DigitChars) : DigitChars[i] = ds[Len(ds)]) - 1)

\* The database's reading of the statement text it is sent: the row count n
\* of a clause LIMIT <n> that closes the text, or -1 when no such clause
\* closes it.
LimitClause(stmt) ==
    LET u == upper(stmt)
        tail(i) == strip(SubSeq(u, i + Len(kw_LIMIT), Len(u)))
        at == {i \in 1..Len(u) :
                 /\ MatchAt(u, i, kw_LIMIT)
                 /\ (i = 1 \/ u[i - 1] \in Whitespace)
                 /\ i + Len(kw_LIMIT) <= Len(u)
                 /\ u[i + Len(kw_LIMIT)] \in Whitespace
                 /\ tail(i) # <<>>
                 /\ \A k \in 1..Len(tail(i)) : IsDigit(tail(i)[k])}
    IN  IF at = {} THEN -1 ELSE ParseNat(tail(CHOOSE i \in at : TRUE))

\* Rows held by the relation a statement reads (a bound of the model).
TableRows == 6

\* cursor.fetchall(): the most rows the statement can return.
fetchall(stmt) ==
    IF LimitClause(stmt) < 0 THEN TableRows ELSE Min(LimitClause(stmt), TableRows)

NoParams == [none |-> TRUE]

\* An except clause that does not roll back.
no_rollback(r) == r

\* conn.rollback() in execute_query's except clause.
rollback(r) ==
    [r EXCEPT !.rollbacks = @ + 1,
              !.conn = IF @ = "aborted" THEN "open" ELSE @]

\* execute_query appending LIMIT to every text.
execute_query_always_limit(r, query, params, limit, max_retries) ==
    LET stripped == rstrip_semicolon(strip(query))
        stmt == stripped \o LIMIT_INFIX \o IntStr(limit)
        cursor_execute(r1) ==
            LET r2 == [r1 EXCEPT !.executed =
                                    Append(@, [query |-> stmt, params |-> params,
                                               limit |-> limit])]
                raised == [rollback([r2 EXCEPT !.conn = "aborted"]) EXCEPT
                              !.exc = Raise("Exception", "Query execution failed: {e}")]
            IN  IF r1.conn = "aborted"
                THEN {raised}
                ELSE {[r2 EXCEPT !.value = [rows |-> fetchall(stmt)]],
                      raised,
                      [r2 EXCEPT !.exc = Raise("TypeError", "")]}
    IN  UNION {IF r1.exc # NoExc THEN {r1} ELSE cursor_execute(r1) :
                 r1 \in get_connection(r, max_retries)}

\* DatabaseManager.execute_query
execute_query(r, query, params, limit, max_retries) ==
    LET stripped == rstrip_semicolon(strip(query))
        stmt == IF ~contains(upper(stripped), kw_LIMIT)
                THEN stripped \o LIMIT_INFIX \o IntStr(limit)
                ELSE stripped
        cursor_execute(r1) ==
            LET r2 == [r1 EXCEPT !.executed =
                                    Append(@, [query |-> stmt, params |-> params,
                                               limit |-> limit])]
                raised == [rollback([r2 EXCEPT !.conn = "aborted"]) EXCEPT
                              !.exc = Raise("Exception", "Query execution failed: {e}")]
            IN  IF r1.conn = "aborted"
                THEN {raised}
                ELSE {[r2 EXCEPT !.value = [rows |-> fetchall(stmt)]],
                      raised,
                      [r2 EXCEPT !.exc = Raise("TypeError", "")]}
    IN  UNION {IF r1.exc # NoExc THEN {r1} ELSE cursor_execute(r1) :
                 r1 \in get_connection(r, max_retries)}

\* DatabaseManager.get_table_names
get_table_names(r, max_retries) ==
    execute_query(r, TABLE_NAMES_QUERY, NoParams, DEFAULT_LIMIT, max_retries)

\* DatabaseManager.describe_table
describe_table(r, table_name, max_retries) ==
    execute_query(r, DESCRIBE_TABLE_QUERY, PyStr(table_name), DEFAULT_LIMIT,
                  max_retries)

\* str.replace(old, '') for a one-character old, and str.isalnum().
remove_char(s, old) == SelectSeq(s, LAMBDA c : c # old)

isalnum(s) == s # <<>> /\ \A i \in 1..Len(s) : IsAlpha(s[i]) \/ IsDigit(s[i])

\* DatabaseManager.count_table_records
count_table_records(r, table_name, max_retries) ==
    IF ~isalnum(remove_char(table_name, "_"))
    THEN {[r EXCEPT !.exc = Raise("ValueError", "Invalid table name")]}
    ELSE execute_query(r, COUNT_QUERY_PREFIX \o table_name \o <<";">>, NoParams,
                       DEFAULT_LIMIT, max_retries)

\* ------------------------------------------------------ PostgreSQLMCPServer

\* A handler's return: the run with its value set to the TextContent.
Return(r, text, detail) ==
    [r EXCEPT !.exc = NoExc, !.value = TextContent(text, detail)]

\* _execute_select running the query first and validating it afterwards.
_execute_select_unvalidated(r, arguments, order, max_rows, max_retries) ==
    LET query == get(arguments, "query", PyStr(<<>>))
        requested == get(arguments, "limit", PyInt(DEFAULT_LIMIT))
    IN  IF ~IsInt(requested)
        THEN {[r EXCEPT !.exc = Raise("TypeError", "'<' not supported between instances")]}
        ELSE IF ~IsStr(query)
        THEN {[r EXCEPT !.exc = Raise("AttributeError", "object has no attribute 'strip'")]}
        ELSE
        LET limit == Min(requested.int, max_rows)
            verdict == validate_query(query.str, order)
        IN  {IF ~verdict.is_valid
             THEN Return(r1, "Query validation failed: {error_msg}", verdict)
             ELSE IF r1.exc = NoExc
             THEN Return(r1, "Query executed successfully. Returned {len(results)} rows",
                         r1.value)
             ELSE Return(r1, "Query execution failed: {str(e)}", r1.exc) :
               r1 \in execute_query(r, query.str, NoParams, limit, max_retries)}

\* PostgreSQLMCPServer._execute_select
_execute_select(r, arguments, order, max_rows, max_retries) ==
    LET query == get(arguments, "query", PyStr(<<>>))
        requested == get(arguments, "limit", PyInt(DEFAULT_LIMIT))
    IN  IF ~IsInt(requested)
        THEN {[r EXCEPT !.exc = Raise("TypeError", "'<' not supported between instances")]}
        ELSE IF ~IsStr(query)
        THEN {[r EXCEPT !.exc = Raise("AttributeError", "object has no attribute 'strip'")]}
        ELSE
        LET limit == Min(requested.int, max_rows)
            verdict == validate_query(query.str, order)
        IN  IF ~verdict.is_valid
            THEN {Return(r, "Query validation failed: {error_msg}", verdict)}
            ELSE {IF r1.exc = NoExc
                  THEN Return(r1, "Query executed successfully. Returned {len(results)} rows",
                              r1.value)
                  ELSE Return(r1, "Query execution failed: {str(e)}", r1.exc) :
                    r1 \in execute_query(r, query.str, NoParams, limit, max_retries)}

\* PostgreSQLMCPServer._get_tables
_get_tables(r, arguments, max_retries) ==
    {IF r1.exc = NoExc
     THEN Return(r1, "Database tables:", r1.value)
     ELSE Return(r1, "Failed to get tables: {str(e)}", r1.exc) :
       r1 \in get_table_names(r, max_retries)}

\* PostgreSQLMCPServer._describe_table
_describe_table(r, arguments, max_retries) ==
    LET table_name == get(arguments, "table_name", PyStr(<<>>))
    IN  IF ~IsStr(table_name)
        THEN {[r EXCEPT !.exc = Raise("TypeError", "expected string or bytes-like object")]}
        ELSE
        LET verdict == sanitize_table_name(table_name.str)
        IN  IF ~verdict.is_valid
            THEN {Return(r, "Table name validation failed: {error_msg}", verdict)}
            ELSE {IF r1.exc = NoExc
                  THEN Return(r1, "Schema for table '{table_name}':", r1.value)
                  ELSE Return(r1, "Failed to describe table: {str(e)}", r1.exc) :
                    r1 \in describe_table(r, table_name.str, max_retries)}

\* _count_records without the sanitize_table_name gate.
_count_records_unchecked(r, arguments, max_retries) ==
    LET table_name == get(arguments, "table_name", PyStr(<<>>))
    IN  IF ~IsStr(table_name)
        THEN {[r EXCEPT !.exc = Raise("TypeError", "expected string or bytes-like object")]}
        ELSE {IF r1.exc = NoExc
              THEN Return(r1, "Table '{table_name}' has {count} records", r1.value)
              ELSE Return(r1, "Failed to count records: {str(e)}", r1.exc) :
                r1 \in count_table_records(r, table_name.str, max_retries)}

\* PostgreSQLMCPServer._count_records
_count_records(r, arguments, max_retries) ==
    LET table_name == get(arguments, "table_name", PyStr(<<>>))
    IN  IF ~IsStr(table_name)
        THEN {[r EXCEPT !.exc = Raise("TypeError", "expected string or bytes-like object")]}
        ELSE
        LET verdict == sanitize_table_name(table_name.str)
        IN  IF ~verdict.is_valid
            THEN {Return(r, "Table name validation failed: {error_msg}", verdict)}
            ELSE {IF r1.exc = NoExc
                  THEN Return(r1, "Table '{table_name}' has {count} records", r1.value)
                  ELSE Return(r1, "Failed to count records: {str(e)}", r1.exc) :
                    r1 \in count_table_records(r, table_name.str, max_retries)}

\* handle_call_tool without its except clause.
handle_call_tool_no_except(r) == r

\* handle_call_tool: the except clause around the handler the tool name
\* selects; r is a run the handler ended with (for a name that selects none,
\* the run with the ValueError raised in its place).
unknown_tool(r) == {[r EXCEPT !.exc = Raise("ValueError", "Unknown tool: {name}")]}

handle_call_tool(r) ==
    IF r.exc = NoExc THEN r ELSE Return(r, "Error: {str(e)}", r.exc)

\* The error indicator the host sees on what a call gave back:
\* handle_call_tool returns a plain list of TextContent with no indicator of
\* its own, so a result is marked as an error only when the call raised.
isError(resp) == resp.kind = "fault"

\* ------------------------------------------------------------------ startup

\* os.environ: each variable unset (Absent) or set to a text.
DEFAULT_AWS_REGION == <<"a", "p", "-", "s", "o", "u", "t", "h", "e", "a", "s", "t", "-", "3">>

SomeSecretArn == <<"a", "r", "n", ":", "s">>

SomeRegion == <<"e", "u">>

EnvTexts(texts) == {Absent} \cup {PyStr(t) : t \in texts}

Environs ==
    [SECRET_ARN : EnvTexts({<<>>, SomeSecretArn}),
     AWS_REGION : EnvTexts({<<>>, SomeRegion}),
     MAX_QUERY_ROWS : EnvTexts({<<"3">>, <<"5", "0", "0", "0", "0">>, <<"a", "b", "c">>}),
     CONNECTION_TIMEOUT : EnvTexts({<<"3", "0">>, <<>>})]

\* int(text): the number, or ValueError for a text that is not one.
IsNumeral(text) == text # <<>> /\ \A i \in 1..Len(text) : IsDigit(text[i])

\* Config.__init__: the configuration read from the environment, or the
\* ValueError int() raises.
Config(environ) ==
    LET max_query_rows_text == get(environ, "MAX_QUERY_ROWS", PyStr(NatStr(DEFAULT_MAX_QUERY_ROWS))).str
        connection_timeout_text == get(environ, "CONNECTION_TIMEOUT", PyStr(<<"3", "0">>)).str
    IN  IF ~IsNumeral(max_query_rows_text) \/ ~IsNumeral(connection_timeout_text)
        THEN [exc |-> Raise("ValueError", "invalid literal for int() with base 10"),
              config |-> NoValue]
        ELSE [exc |-> NoExc,
              config |-> [secret_arn |-> get(environ, "SECRET_ARN", Absent),
                          aws_region |-> get(environ, "AWS_REGION", PyStr(DEFAULT_AWS_REGION)),
                          max_query_rows |-> ParseNat(max_query_rows_text),
                          connection_timeout |-> ParseNat(connection_timeout_text)]]

\* Python truth of an optional text: None and '' are false.
Falsy(v) == v = Absent \/ v = PyStr(<<>>)

\* Config.validate: the exception it raises, NoExc when it returns True.
validate(config) ==
    IF Falsy(config.secret_arn)
    THEN Raise("ValueError", "SECRET_ARN environment variable is required")
    ELSE IF Falsy(config.aws_region)
    THEN Raise("ValueError", "AWS_REGION environment variable is required")
    ELSE NoExc

\* The process before main() and after it: phase "new", then "serving"
\* (PostgreSQLMCPServer() returned; db_manager holds the DatabaseManager made
\* from the configuration) or "exited" (main's except clause logged
\* "Server startup failed: {e}" and called sys.exit(1)).
Process(phase, environ, config, db_manager, exc) ==
    [phase |-> phase, environ |-> environ, config |-> config,
     db_manager |-> db_manager, exc |-> exc]

NewProcess(environ) == Process("new", environ, NoValue, NoValue, NoExc)

\* DatabaseManager.__init__ as PostgreSQLMCPServer.__init__ calls it.
DatabaseManager(secret_arn, region_name) ==
    [secret_arn |-> secret_arn, region_name |-> region_name,
     max_retries |-> DEFAULT_MAX_RETRIES]

\* main(): PostgreSQLMCPServer.__init__ inside main's try.
main(environ) ==
    LET read == Config(environ)
    IN  IF read.exc # NoExc
        THEN Process("exited", environ, NoValue, NoValue, read.exc)
        ELSE IF validate(read.config) # NoExc
        THEN Process("exited", environ, read.config, NoValue, validate(read.config))
        ELSE Process("serving", environ, read.config,
                     DatabaseManager(read.config.secret_arn.str,
                                     read.config.aws_region.str),
                     NoExc)

\* ------------------------------------------------------------ state machine

VARIABLES
    startup,          \* the process: its environment and what main() made of it
    max_query_rows,   \* Config.max_query_rows
    keyword_order,    \* iteration order of BLOCKED_KEYWORDS in this process
    db_credentials,   \* DatabaseManager._db_credentials
    connection,       \* DatabaseManager._connection: "None", "open", "aborted", "closed"
    request,          \* the tool call the host has issued, not yet handled
    handled,          \* the tool call handled last
    response,         \* what handle_call_tool gave back for it
    trace,            \* what handling it did: calls, delays, statements
    input,            \* validator runs: the text under validation
    verdict,          \* validator runs: the (is_valid, error_message) returned
    tasks             \* overlapping invocations: where each coroutine stands

vars ==
    <<startup, max_query_rows, keyword_order, db_credentials, connection, request,
      handled, response, trace, input, verdict, tasks>>

\* No invocation issued, no connection open at the database, no secret
\* fetched.
NoTasks == [pc |-> <<>>, handles |-> 0, fetches |-> 0]

NoArguments == [query |-> Absent, limit |-> Absent, table_name |-> Absent]

LimitValues == {Absent, PyInt(2), PyInt(5000)}

\* Arguments of another type than the tool's schema gives them.
NotAString == PyInt(7)

NotAnInteger == PyStr(<<"t", "e", "n">>)

\* A limit above the "maximum" the tool's inputSchema declares.
AboveSchemaMaximum == PyInt(2 * LIMIT_SCHEMA_MAXIMUM)

Request(name, arguments) == [name |-> name, arguments |-> arguments]

NoRequest == Request("", NoArguments)

\* The query texts sent with each limit value: the limit plays no part in
\* validation, the other texts are sent without one.
LimitedQueries ==
    {ch_select_x, ch_select_lower, ch_drop_t, ex_test4, ex_test5,
     ch_select_x \o ch_semicolon, ch_select_x \o ch_limit_5,
     ch_select_x \o ch_limits_ident, ch_select_x \o ch_into_t}

Requests ==
    {Request("execute_select", [NoArguments EXCEPT !.query = PyStr(q)]) :
        q \in CallQueries}
    \cup {Request("execute_select",
                  [NoArguments EXCEPT !.query = PyStr(q), !.limit = l]) :
            q \in LimitedQueries, l \in LimitValues}
    \cup {Request("execute_select", [NoArguments EXCEPT !.limit = l]) :
            l \in LimitValues}
    \cup {Request("execute_select", [NoArguments EXCEPT !.query = NotAString]),
          Request("execute_select",
                  [NoArguments EXCEPT !.query = PyStr(ch_select_x),
                                      !.limit = NotAnInteger]),
          Request("execute_select",
                  [NoArguments EXCEPT !.query = PyStr(ch_select_x),
                                      !.limit = AboveSchemaMaximum])}
    \cup {Request("get_tables", NoArguments)}
    \cup {Request(name, [NoArguments EXCEPT !.table_name = n]) :
            name \in {"describe_table", "count_records"},
            n \in {Absent, NotAString} \cup {PyStr(t) : t \in CallTableNames}}
    \cup {Request("drop_table", [NoArguments EXCEPT !.table_name = PyStr(<<"a">>)])}

NoResponse == [kind |-> "none", content |-> NoValue]

NoTrace ==
    [secret_calls |-> 0, connect_calls |-> 0, answers |-> <<>>, sleeps |-> <<>>,
     executed |-> <<>>, rollbacks |-> 0]

NoInput == [kind |-> "none", text |-> <<>>]

NoVerdict == Verdict(FALSE, "none", <<>>)

\* MAX_QUERY_ROWS values a deployment is started with.
MaxQueryRowsValues == {DEFAULT_MAX_QUERY_ROWS, 3, 50000}

\* An environment that starts the server with that maximum.
ServingEnviron(max_rows) ==
    [SECRET_ARN |-> PyStr(SomeSecretArn), AWS_REGION |-> Absent,
     MAX_QUERY_ROWS |-> IF max_rows = DEFAULT_MAX_QUERY_ROWS
                        THEN Absent ELSE PyStr(NatStr(max_rows)),
     CONNECTION_TIMEOUT |-> Absent]

\* PostgreSQLMCPServer.__init__ with a valid configuration.
Init ==
    /\ max_query_rows \in MaxQueryRowsValues
    /\ startup = main(ServingEnviron(max_query_rows))
    /\ keyword_order \in KeywordOrders
    /\ db_credentials = NoCreds
    /\ connection = "None"
    /\ request = NoRequest
    /\ handled = NoRequest
    /\ response = NoResponse
    /\ trace = NoTrace
    /\ input = NoInput
    /\ verdict = NoVerdict
    /\ tasks = NoTasks

\* The host issues a tool call.
Call ==
    /\ request = NoRequest
    /\ response = NoResponse
    /\ request' \in Requests
    /\ UNCHANGED <<startup, max_query_rows, keyword_order, db_credentials, connection,
                   handled, response, trace, input, verdict, tasks>>

\* The host takes the response of the call it issued.
Deliver ==
    /\ response # NoResponse
    /\ handled' = NoRequest
    /\ response' = NoResponse
    /\ trace' = NoTrace
    /\ UNCHANGED <<startup, max_query_rows, keyword_order, db_credentials, connection,
                   request, input, verdict, tasks>>

\* The run of a handler ends: the manager's fields, the response and the
\* trace of the call are what handle_call_tool leaves.
Finish(r) ==
    /\ db_credentials' = r.creds
    /\ connection' = r.conn
    /\ response' = IF r.exc = NoExc
                   THEN [kind |-> "result", content |-> r.value]
                   ELSE [kind |-> "fault", content |-> r.exc]
    /\ trace' = [secret_calls |-> r.secret_calls,
                 connect_calls |-> r.connect_calls, answers |-> r.answers,
                 sleeps |-> r.sleeps, executed |-> r.executed,
                 rollbacks |-> r.rollbacks]
    /\ handled' = request
    /\ request' = NoRequest
    /\ UNCHANGED <<startup, max_query_rows, keyword_order, input, verdict, tasks>>

\* handle_call_tool, name == "execute_select"
ExecuteSelect ==
    /\ request.name = "execute_select"
    /\ \E r \in {handle_call_tool(h) :
                h \in _execute_select(StartRun(db_credentials, connection),
                                 request.arguments, keyword_order, max_query_rows,
                                 DEFAULT_MAX_RETRIES)} :
            Finish(r)

\* handle_call_tool, name == "get_tables"
GetTables ==
    /\ request.name = "get_tables"
    /\ \E r \in {handle_call_tool(h) :
                h \in _get_tables(StartRun(db_credentials, connection),
                             request.arguments, DEFAULT_MAX_RETRIES)} :
            Finish(r)

\* handle_call_tool, name == "describe_table"
DescribeTable ==
    /\ request.name = "describe_table"
    /\ \E r \in {handle_call_tool(h) :
                h \in _describe_table(StartRun(db_credentials, connection),
                                 request.arguments, DEFAULT_MAX_RETRIES)} :
            Finish(r)

\* handle_call_tool, name == "count_records"
CountRecords ==
    /\ request.name = "count_records"
    /\ \E r \in {handle_call_tool(h) :
                h \in _count_records(StartRun(db_credentials, connection),
                                request.arguments, DEFAULT_MAX_RETRIES)} :
            Finish(r)

\* handle_call_tool, any other name
UnknownTool ==
    /\ request # NoRequest
    /\ request.name \notin {"execute_select", "get_tables", "describe_table",
                            "count_records"}
    /\ \E r \in {handle_call_tool(h) :
                h \in unknown_tool(StartRun(db_credentials, connection))} :
            Finish(r)

\* DatabaseManager.close
Close ==
    /\ request = NoRequest
    /\ response = NoResponse
    /\ connection' = IF connection \in NotClosed THEN "closed" ELSE connection
    /\ UNCHANGED <<startup, max_query_rows, keyword_order, db_credentials, request,
                   handled, response, trace, input, verdict, tasks>>

\* The server or the network ends the connection: the handle reports closed.
ConnectionLost ==
    /\ request = NoRequest
    /\ response = NoResponse
    /\ connection \in NotClosed
    /\ connection' = "closed"
    /\ UNCHANGED <<startup, max_query_rows, keyword_order, db_credentials, request,
                   handled, response, trace, input, verdict, tasks>>

Next ==
    \/ Call
    \/ Deliver
    \/ ExecuteSelect
    \/ GetTables
    \/ DescribeTable
    \/ CountRecords
    \/ UnknownTool
    \/ Close
    \/ ConnectionLost

Spec == Init /\ [][Next]_vars

\* ----------------------------------------------------- the start of a process

InitStartup ==
    /\ startup \in {NewProcess(e) : e \in Environs}
    /\ max_query_rows = 0
    /\ keyword_order = BLOCKED_KEYWORDS
    /\ db_credentials = NoCreds
    /\ connection = "None"
    /\ request = NoRequest
    /\ handled = NoRequest
    /\ response = NoResponse
    /\ trace = NoTrace
    /\ input = NoInput
    /\ verdict = NoVerdict
    /\ tasks = NoTasks

\* main() runs: the server is constructed, or the process exits.
Main ==
    /\ startup.phase = "new"
    /\ startup' = main(startup.environ)
    /\ max_query_rows' = IF startup'.phase = "serving"
                         THEN startup'.config.max_query_rows ELSE max_query_rows
    /\ UNCHANGED <<keyword_order, db_credentials, connection, request, handled,
                   response, trace, input, verdict, tasks>>

NextStartup == Main

SpecStartup == InitStartup /\ [][NextStartup]_vars

\* ------------------------------------------------- the validator on its own

ValidatorInputs ==
    {[kind |-> "query", text |-> q] : q \in Queries}
        \cup {[kind |-> "table_name", text |-> n] : n \in TableNames}

InitValidator ==
    /\ max_query_rows = DEFAULT_MAX_QUERY_ROWS
    /\ startup = main(ServingEnviron(max_query_rows))
    /\ keyword_order \in KeywordOrders
    /\ db_credentials = NoCreds
    /\ connection = "None"
    /\ request = NoRequest
    /\ handled = NoRequest
    /\ response = NoResponse
    /\ trace = NoTrace
    /\ input \in ValidatorInputs
    /\ verdict = NoVerdict
    /\ tasks = NoTasks

ValidateQuery ==
    /\ input.kind = "query"
    /\ verdict = NoVerdict
    /\ verdict' = validate_query(input.text, keyword_order)
    /\ UNCHANGED <<startup, max_query_rows, keyword_order, db_credentials, connection,
                   request, handled, response, trace, input, tasks>>

SanitizeTableName ==
    /\ input.kind = "table_name"
    /\ verdict = NoVerdict
    /\ verdict' = sanitize_table_name(input.text)
    /\ UNCHANGED <<startup, max_query_rows, keyword_order, db_credentials, connection,
                   request, handled, response, trace, input, tasks>>

NextValidator == ValidateQuery \/ SanitizeTableName

SpecValidator == InitValidator /\ [][NextValidator]_vars

\* ------------------------------------------- overlapping tool invocations

\* The host may issue a tool call while earlier ones are unanswered; each
\* call is a handle_call_tool coroutine on the host's event loop. Here a
\* handler is followed from one call into the network to the next.
MaxOverlap == 3

Invocations == 1..MaxOverlap

\* Where a coroutine stands inside its handler: in get_secret_value with
\* its retries ("fetch"), in psycopg.connect with its retries ("connect"),
\* in cursor.execute ("execute"). Outside: "idle", "issued", "done".
BlockingCalls == {"fetch", "connect", "execute"}

\* The calls into the network made with await, as non-blocking I/O would.
AwaitedCalls == BlockingCalls

\* The positions inside a handler at which its coroutine yields to the
\* event loop. get_secret, get_connection and execute_query are plain
\* functions called without await, and time.sleep blocks the thread: a
\* handler that has started runs to its return.
SuspensionPoints == {}

\* The event loop can run a step of invocation i: no other coroutine is
\* inside its handler, short of a suspension point.
MayRun(i) ==
    \A j \in Invocations \ {i} :
        tasks.pc[j] \in {"idle", "issued", "done"} \cup SuspensionPoints

InitOverlap ==
    /\ max_query_rows = DEFAULT_MAX_QUERY_ROWS
    /\ startup = main(ServingEnviron(max_query_rows))
    /\ keyword_order = BLOCKED_KEYWORDS
    /\ db_credentials = NoCreds
    /\ connection = "None"
    /\ request = NoRequest
    /\ handled = NoRequest
    /\ response = NoResponse
    /\ trace = NoTrace
    /\ input = NoInput
    /\ verdict = NoVerdict
    /\ tasks = [pc |-> [i \in Invocations |-> "idle"], handles |-> 0, fetches |-> 0]

\* The host issues a tool call, whatever the earlier ones are doing.
Issue(i) ==
    /\ tasks.pc[i] = "idle"
    /\ tasks' = [tasks EXCEPT !.pc[i] = "issued"]
    /\ UNCHANGED <<startup, max_query_rows, keyword_order, db_credentials, connection,
                   request, handled, response, trace, input, verdict>>

\* handle_call_tool from its entry to its first call into the network: a
\* call refused by validation or naming no tool returns at once; the others
\* enter execute_query and get_connection, which hands back the handle it
\* holds if that is not closed, and otherwise goes through get_secret, which
\* hands back the cached credentials if there are any.
StartHandler(i) ==
    /\ tasks.pc[i] = "issued"
    /\ MayRun(i)
    /\ \/ tasks' = [tasks EXCEPT !.pc[i] = "done"]
       \/ tasks' = [tasks EXCEPT !.pc[i] =
                        IF connection \in NotClosed THEN "execute"
                        ELSE IF db_credentials # NoCreds THEN "connect"
                        ELSE "fetch"]
    /\ UNCHANGED <<startup, max_query_rows, keyword_order, db_credentials, connection,
                   request, handled, response, trace, input, verdict>>

\* get_secret's loop ends: the credentials are cached and get_connection
\* goes on to connect, or the last attempt failed and the handler returns
\* the error.
SecretReturns(i) ==
    /\ tasks.pc[i] = "fetch"
    /\ MayRun(i)
    /\ \/ /\ db_credentials' = Creds
          /\ tasks' = [tasks EXCEPT !.pc[i] = "connect", !.fetches = @ + 1]
       \/ /\ tasks' = [tasks EXCEPT !.pc[i] = "done"]
          /\ UNCHANGED db_credentials
    /\ UNCHANGED <<startup, max_query_rows, keyword_order, connection,
                   request, handled, response, trace, input, verdict>>

\* get_connection's loop ends: the new handle is stored in _connection
\* (whatever the field held) and execute_query sends its statement, or the
\* last attempt failed and the handler returns the error.
ConnectReturns(i) ==
    /\ tasks.pc[i] = "connect"
    /\ MayRun(i)
    /\ \/ /\ connection' = "open"
          /\ tasks' = [tasks EXCEPT !.pc[i] = "execute", !.handles = @ + 1]
       \/ /\ tasks' = [tasks EXCEPT !.pc[i] = "done"]
          /\ UNCHANGED connection
    /\ UNCHANGED <<startup, max_query_rows, keyword_order, db_credentials,
                   request, handled, response, trace, input, verdict>>

\* cursor.execute comes back, with rows or with an error that is rolled
\* back, and the handler returns its result.
ExecuteReturns(i) ==
    /\ tasks.pc[i] = "execute"
    /\ MayRun(i)
    /\ tasks' = [tasks EXCEPT !.pc[i] = "done"]
    /\ UNCHANGED <<startup, max_query_rows, keyword_order, db_credentials, connection,
                   request, handled, response, trace, input, verdict>>

\* The host takes the result of a finished call.
ResultDelivered(i) ==
    /\ tasks.pc[i] = "done"
    /\ MayRun(i)
    /\ tasks' = [tasks EXCEPT !.pc[i] = "idle"]
    /\ UNCHANGED <<startup, max_query_rows, keyword_order, db_credentials, connection,
                   request, handled, response, trace, input, verdict>>

\* The database or the network closes the connection the manager holds.
ConnectionDrops ==
    /\ tasks # NoTasks
    /\ connection \in NotClosed
    /\ connection' = "closed"
    /\ tasks' = [tasks EXCEPT !.handles = @ - 1]
    /\ UNCHANGED <<startup, max_query_rows, keyword_order, db_credentials,
                   request, handled, response, trace, input, verdict>>

NextOverlap ==
    \/ \E i \in Invocations : Issue(i)
    \/ \E i \in Invocations : StartHandler(i)
    \/ \E i \in Invocations : SecretReturns(i)
    \/ \E i \in Invocations : ConnectReturns(i)
    \/ \E i \in Invocations : ExecuteReturns(i)
    \/ \E i \in Invocations : ResultDelivered(i)
    \/ ConnectionDrops

SpecOverlap == InitOverlap /\ [][NextOverlap]_vars

\* --------------------------------------------------------------- properties

\* The arguments of the call handled last, read as the handlers read them.
QueryArg == get(handled.arguments, "query", PyStr(<<>>))

LimitArg == get(handled.arguments, "limit", PyInt(DEFAULT_LIMIT))

TableNameArg == get(handled.arguments, "table_name", PyStr(<<>>))

\* A response is pending for a call of the tool `name`.
Answered(name) == response # NoResponse /\ handled.name = name

\* The response is the returned TextContent with this text and detail.
Returned(text, detail) ==
    response = [kind |-> "result", content |-> TextContent(text, detail)]

ReturnedText(text) ==
    /\ response.kind = "result"
    /\ DOMAIN response.content = {"text", "detail"}
    /\ response.content.text = text

\* The call reached for the database: a request to the secrets backend, a
\* connect attempt or a statement.
TouchedDatabase ==
    trace.secret_calls > 0 \/ trace.connect_calls > 0 \/ trace.executed # <<>>

endswith(s, suffix) ==
    /\ Len(s) >= Len(suffix)
    /\ SubSeq(s, Len(s) - Len(suffix) + 1, Len(s)) = suffix

\* The statements of a text: its parts between semicolons.
Statements(text) ==
    LET cuts == {0, Len(text) + 1} \cup {i \in 1..Len(text) : text[i] = ";"}
    IN  {SubSeq(text, a + 1, b - 1) :
            <<a, b>> \in {c \in cuts \X cuts :
                            /\ c[1] < c[2]
                            /\ \A m \in cuts : ~(c[1] < m /\ m < c[2])}}

\* A statement that changes the database: one led by INSERT, UPDATE, DELETE
\* or a DDL verb, or SELECT ... INTO <table>, PostgreSQL's statement that
\* defines a new table from the rows of a query.
IsMutationStatement(stmt) ==
    LET u == strip(upper(stmt))
    IN  \/ \E k \in MUTATING_KEYWORDS : startswith(u, k)
        \/ /\ startswith(u, kw_SELECT)
           /\ contains(u, <<" ", "I", "N", "T", "O", " ">>)

\* C1: execute_select validates the supplied query text before anything
\* touches the database: when validate_query rejects the text, the result is
\* the validation failure carrying the validator's reason and the call made
\* no request to the secrets backend, no connect attempt and sent no
\* statement; and whenever a call of execute_select touched the database,
\* its text had been accepted by validate_query.
C1_ValidatedBeforeDatabase ==
    Answered("execute_select") =>
        /\ (/\ IsStr(QueryArg)
            /\ IsInt(LimitArg)
            /\ ~validate_query(QueryArg.str, keyword_order).is_valid)
                => /\ Returned("Query validation failed: {error_msg}",
                               validate_query(QueryArg.str, keyword_order))
                   /\ trace = NoTrace
        /\ TouchedDatabase
                => /\ IsStr(QueryArg)
                   /\ validate_query(QueryArg.str, keyword_order).is_valid

\* The security test's text is rejected on an open connection, nothing sent.
C1_Witness ==
    /\ Answered("execute_select")
    /\ QueryArg = PyStr(ex_test5)
    /\ connection = "open"
    /\ ReturnedText("Query validation failed: {error_msg}")
    /\ response.content.detail.error_message = "Only SELECT queries are allowed"
    /\ trace = NoTrace

\* C2: no mutation statement (INSERT, UPDATE, DELETE or DDL) is ever sent to
\* the database by any of the four tools, as the first statement of a text
\* or as a later statement following a semicolon.
C2_NoMutationStatementSent ==
    \A i \in 1..Len(trace.executed) :
        \A stmt \in Statements(trace.executed[i].query) :
            ~IsMutationStatement(stmt)

\* C3: handle_call_tool returns a result for every tool name and every
\* argument mapping, no exception escapes it: an unknown tool name yields the
\* result describing the unknown tool without touching the database, and a
\* malformed argument (a limit that is not an integer, a query or table name
\* that is not a string) yields an error result.
C3_AlwaysAResult ==
    response # NoResponse =>
        /\ response.kind = "result"
        /\ DOMAIN response.content = {"text", "detail"}
        /\ handled.name \notin {"execute_select", "get_tables", "describe_table",
                                "count_records"}
                => /\ Returned("Error: {str(e)}",
                               Raise("ValueError", "Unknown tool: {name}"))
                   /\ trace = NoTrace
        /\ (handled.name = "execute_select" /\ ~IsInt(LimitArg))
                => ReturnedText("Error: {str(e)}")
        /\ (handled.name = "execute_select" /\ ~IsStr(QueryArg))
                => ReturnedText("Error: {str(e)}")
        /\ (handled.name \in {"describe_table", "count_records"}
                /\ ~IsStr(TableNameArg))
                => ReturnedText("Error: {str(e)}")

\* A limit that is not an integer comes back as an error result.
C3_Witness ==
    /\ Answered("execute_select")
    /\ handled.arguments.limit = NotAnInteger
    /\ Returned("Error: {str(e)}",
                Raise("TypeError", "'<' not supported between instances"))

\* C4: describe_table and count_records run sanitize_table_name first: when
\* it rejects the name (a missing table_name argument included), the result
\* carries the rejection reason and the call made no request to the secrets
\* backend, no connect attempt and no database call, whatever the state of
\* the credentials and the connection.
C4_TableNameGate ==
    (/\ response # NoResponse
     /\ handled.name \in {"describe_table", "count_records"}
     /\ IsStr(TableNameArg)
     /\ ~sanitize_table_name(TableNameArg.str).is_valid)
        => /\ Returned("Table name validation failed: {error_msg}",
                       sanitize_table_name(TableNameArg.str))
           /\ trace = NoTrace

\* count_records on a name with a leading digit, on an open connection.
C4_Witness ==
    /\ Answered("count_records")
    /\ handled.arguments.table_name = PyStr(<<"7", "a">>)
    /\ connection = "open"
    /\ ReturnedText("Table name validation failed: {error_msg}")
    /\ response.content.detail.error_message = "Invalid table name format"
    /\ trace = NoTrace

\* C5: validate_query rejects every query text that, once surrounding
\* whitespace is trimmed and letter case ignored, does not start with SELECT.
C5_NonSelectRejected ==
    (/\ input.kind = "query"
     /\ verdict # NoVerdict
     /\ ~startswith(upper(strip(input.text)), kw_SELECT))
        => ~verdict.is_valid

\* The security test's text, DROP TABLE ...; SELECT ..., is rejected.
C5_Witness ==
    /\ input = [kind |-> "query", text |-> ex_test5]
    /\ verdict = Verdict(FALSE, "Only SELECT queries are allowed", <<>>)

\* C6: validate_query rejects every query text that contains one of the 17
\* blocked keywords as a substring, in any letter case and at any position,
\* inside a longer identifier included.
C6_BlockedKeywordRejected ==
    (/\ input.kind = "query"
     /\ verdict # NoVerdict
     /\ \E k \in 1..Len(BLOCKED_KEYWORDS) :
            contains(upper(input.text), BLOCKED_KEYWORDS[k]))
        => ~verdict.is_valid

\* SELECT x, my_update_count: the keyword in lower case inside an identifier.
C6_Witness ==
    /\ input = [kind |-> "query",
                text |-> ch_select_x \o <<",", " ", "m", "y", "_">> \o lower(kw_UPDATE)
                            \o <<"_", "c", "o", "u", "n", "t">>]
    /\ verdict = Verdict(FALSE, "Blocked keyword '{keyword}' found in query",
                         kw_UPDATE)

\* C7: sanitize_table_name accepts every name made of a letter or underscore
\* followed by letters, digits and underscores only, of length at most 63,
\* and rejects the empty name, every name longer than 63 characters, every
\* name with a leading digit, every name holding a hyphen and every name
\* holding a dot.
C7_TableNameRule ==
    (input.kind = "table_name" /\ verdict # NoVerdict) =>
        LET name == input.text
            wellformed ==
                /\ name # <<>>
                /\ name[1] \in AlphaChars \cup {"_"}
                /\ \A i \in 1..Len(name) :
                        \/ name[i] \in AlphaChars \cup {"_"}
                        \/ IsDigit(name[i])
        IN  /\ (wellformed /\ Len(name) <= 63) => verdict.is_valid
            /\ name = <<>> => ~verdict.is_valid
            /\ Len(name) > 63 => ~verdict.is_valid
            /\ (name # <<>> /\ IsDigit(name[1])) => ~verdict.is_valid
            /\ (\E i \in 1..Len(name) : name[i] \in {"-", "."})
                    => ~verdict.is_valid

\* A well-formed name of exactly 63 characters is accepted.
C7_Witness ==
    /\ input.kind = "table_name"
    /\ Len(input.text) = 63
    /\ verdict = Verdict(TRUE, "", <<>>)

\* C8: for every table name sanitize_table_name accepts, count_records
\* delegates to the database: the result is the count or the failure of the
\* query, and the name is not turned away afterwards as an invalid table
\* name without the database having been approached.
C8_AcceptedNameReachesDatabase ==
    (/\ Answered("count_records")
     /\ IsStr(TableNameArg)
     /\ sanitize_table_name(TableNameArg.str).is_valid)
        => /\ TouchedDatabase
           /\ ~Returned("Failed to count records: {str(e)}",
                        Raise("ValueError", "Invalid table name"))

\* C9: the limit execute_select hands to execute_query is the smaller of the
\* requested limit (1000 when absent) and the configured maximum; for a query
\* text without LIMIT in it (the substring test execute_query makes) the
\* statement sent ends with LIMIT <that limit>: with limit 5000 and maximum
\* 1000 it ends with LIMIT 1000.
C9_EffectiveLimit ==
    (Answered("execute_select") /\ trace.executed # <<>>) =>
        LET requested == LimitArg.int
            effective == IF requested <= max_query_rows
                         THEN requested ELSE max_query_rows
            sent == trace.executed[1]
        IN  /\ Len(trace.executed) = 1
            /\ sent.limit = effective
            /\ ~contains(upper(QueryArg.str), kw_LIMIT)
                    => endswith(sent.query, LIMIT_INFIX \o IntStr(effective))
            /\ (/\ ~contains(upper(QueryArg.str), kw_LIMIT)
                /\ requested = 5000
                /\ max_query_rows = 1000)
                    => endswith(sent.query,
                                <<" ", "L", "I", "M", "I", "T", " ", "1", "0", "0", "0">>)

\* limit=5000 under a maximum of 1000: SELECT x is sent as SELECT x LIMIT 1000.
C9_Witness ==
    /\ Answered("execute_select")
    /\ max_query_rows = 1000
    /\ QueryArg = PyStr(ch_select_x)
    /\ handled.arguments.limit = PyInt(5000)
    /\ Len(trace.executed) = 1
    /\ trace.executed[1].limit = 1000
    /\ trace.executed[1].query
            = ch_select_x \o <<" ", "L", "I", "M", "I", "T", " ", "1", "0", "0", "0">>
    /\ ReturnedText("Query executed successfully. Returned {len(results)} rows")

\* C10: every statement sent for an accepted execute_select query carries a
\* row cap no larger than the configured maximum, and the rows it returns
\* never exceed that maximum.
C10_BoundedResult ==
    Answered("execute_select") =>
        /\ \A i \in 1..Len(trace.executed) :
                /\ LimitClause(trace.executed[i].query) >= 0
                /\ LimitClause(trace.executed[i].query) <= max_query_rows
        /\ ReturnedText("Query executed successfully. Returned {len(results)} rows")
                => response.content.detail.rows <= max_query_rows

\* A handler runs in this step: a call is taken and its response given.
Handles == request # NoRequest /\ response' # NoResponse

\* The text of a tool's failure result and of its success result.
FailureTexts ==
    {"Error: {str(e)}", "Query validation failed: {error_msg}",
     "Query execution failed: {str(e)}", "Failed to get tables: {str(e)}",
     "Table name validation failed: {error_msg}",
     "Failed to describe table: {str(e)}", "Failed to count records: {str(e)}"}

\* The text the tool handled last gave to execute_query.
GivenQuery ==
    CASE handled.name = "execute_select" -> QueryArg.str
      [] handled.name = "get_tables" -> TABLE_NAMES_QUERY
      [] handled.name = "describe_table" -> DESCRIBE_TABLE_QUERY
      [] handled.name = "count_records"
            -> COUNT_QUERY_PREFIX \o TableNameArg.str \o <<";">>

\* A text with the whitespace around it and then the semicolons that end it
\* taken away.
RECURSIVE WithoutTrailingSemicolons(_)
WithoutTrailingSemicolons(text) ==
    IF text # <<>> /\ text[Len(text)] = ";"
    THEN WithoutTrailingSemicolons(SubSeq(text, 1, Len(text) - 1))
    ELSE text

\* C11: the LIMIT value appended for an execute_select call never exceeds
\* 10000, whatever limit is requested and whatever maximum is configured.
C11_LimitWithinHardCeiling ==
    Answered("execute_select") =>
        \A i \in 1..Len(trace.executed) :
            /\ trace.executed[i].limit <= 10000
            /\ ~contains(upper(QueryArg.str), kw_LIMIT)
                    => LimitClause(trace.executed[i].query) <= 10000

\* C12: once the credentials are cached, every later call, a reconnect after
\* the connection was closed included, keeps them and makes no request to
\* the secrets backend.
C12_CredentialsCached ==
    [][(Handles /\ db_credentials = Creds)
            => /\ db_credentials' = Creds
               /\ trace'.secret_calls = 0
               /\ \A i \in 1..Len(trace'.answers) :
                      trace'.answers[i] \in {"Connection", "psycopg.Error", "KeyError"}]_vars

\* A reconnect that fails three times, made with the cached credentials.
C12_Witness ==
    /\ response # NoResponse
    /\ db_credentials = Creds
    /\ trace.secret_calls = 0
    /\ trace.answers = <<"psycopg.Error", "psycopg.Error", "psycopg.Error">>

\* C13, as stated: when the secrets backend fails on each of 3 consecutive
\* attempts (max_retries 3), get_secret makes exactly 3 attempts, the delays
\* slept are 1, 2 and 4, and the call fails with the secret-retrieval error
\* carrying the last cause.
C13_DelaysOneTwoFour ==
    (response # NoResponse
        /\ trace.answers = <<"ClientError", "ClientError", "ClientError">>)
        => /\ trace.secret_calls = 3
           /\ trace.sleeps = <<1, 2, 4>>
           /\ response.content.detail =
                Raise("Exception", "Failed to retrieve secret after {max_retries} attempts: {e}")

\* C13, amended: when the secrets backend fails on each of 3 consecutive
\* attempts (max_retries 3), get_secret makes exactly 3 attempts, sleeps 1
\* and then 2 between them (nothing after the last), and the call fails with
\* the secret-retrieval error carrying the last cause; no connect attempt
\* and no statement follow, and no credentials are cached.
C13_DelaysOneTwo ==
    (response # NoResponse
        /\ trace.answers = <<"ClientError", "ClientError", "ClientError">>)
        => /\ trace.secret_calls = 3
           /\ trace.sleeps = <<1, 2>>
           /\ response.kind = "result"
           /\ response.content.text \in FailureTexts
           /\ response.content.detail =
                Raise("Exception", "Failed to retrieve secret after {max_retries} attempts: {e}")
           /\ trace.connect_calls = 0
           /\ trace.executed = <<>>
           /\ db_credentials = NoCreds

\* get_tables while the secrets backend fails three times.
C13_Witness ==
    /\ Answered("get_tables")
    /\ trace.answers = <<"ClientError", "ClientError", "ClientError">>
    /\ ReturnedText("Failed to get tables: {str(e)}")

\* C14: a call reuses the held connection whenever it reports itself open:
\* no credential lookup and no connect call happen in it; when no connection
\* is held or the held one reports closed, a call that executes a statement
\* has connected first and leaves the new connection held.
C14_ConnectionReuse ==
    [][Handles =>
            /\ connection \in NotClosed
                    => /\ trace'.secret_calls = 0
                       /\ trace'.connect_calls = 0
                       /\ trace'.answers = <<>>
                       /\ connection' \in NotClosed
            /\ (connection \notin NotClosed /\ trace'.executed # <<>>)
                    => /\ trace'.connect_calls >= 1
                       /\ trace'.answers[Len(trace'.answers)] = "Connection"
                       /\ connection' \in NotClosed]_vars

\* A call connects once with cached credentials and executes: what happens
\* after close() or after the connection was lost.
C14_Witness ==
    /\ response # NoResponse
    /\ trace.answers = <<"Connection">>
    /\ trace.secret_calls = 0
    /\ Len(trace.executed) = 1
    /\ connection = "open"
    /\ response.kind = "result"
    /\ response.content.text \notin FailureTexts

\* C15: whenever the execution of a statement fails, execute_query rolls
\* back before the error is surfaced: the failure result comes with one
\* rollback, and no call leaves the connection in an aborted transaction.
C15_RollbackOnFailure ==
    /\ connection # "aborted"
    /\ (/\ response.kind = "result"
        /\ response.content.detail
              = Raise("Exception", "Query execution failed: {e}"))
            => /\ trace.rollbacks = 1
               /\ Len(trace.executed) = 1
    /\ trace.rollbacks <= Len(trace.executed)

\* count_records whose statement fails: rolled back, connection still open.
C15_Witness ==
    /\ Answered("count_records")
    /\ ReturnedText("Failed to count records: {str(e)}")
    /\ response.content.detail = Raise("Exception", "Query execution failed: {e}")
    /\ trace.rollbacks = 1
    /\ connection = "open"

\* C16: started with a required setting missing (SECRET_ARN or AWS_REGION,
\* unset or empty), the process fails with the error naming the setting,
\* before a DatabaseManager is created and before any request to the
\* secrets backend or the database.
C16_MissingSettingFailsStartup ==
    (/\ startup.phase # "new"
     /\ \/ Falsy(startup.environ.SECRET_ARN)
        \/ Falsy(startup.environ.AWS_REGION))
        => /\ startup.phase = "exited"
           /\ startup.exc.type = "ValueError"
           /\ startup.config # NoValue
                => startup.exc \in
                     {Raise("ValueError", "SECRET_ARN environment variable is required"),
                      Raise("ValueError", "AWS_REGION environment variable is required")}
           /\ startup.db_manager = NoValue
           /\ trace = NoTrace
           /\ connection = "None"

\* C17: execute_query takes the semicolons off the end of the (trimmed) text
\* and appends LIMIT <limit> exactly when the text does not contain LIMIT in
\* any letter case; a text that contains LIMIT is sent with its own limit,
\* nothing appended.
C17_LimitAppendedWhenAbsent ==
    (response # NoResponse /\ trace.executed # <<>>) =>
        LET sent == trace.executed[1]
            statement == WithoutTrailingSemicolons(strip(GivenQuery))
        IN  /\ contains(upper(GivenQuery), kw_LIMIT) => sent.query = statement
            /\ ~contains(upper(GivenQuery), kw_LIMIT)
                    => sent.query = statement \o LIMIT_INFIX \o IntStr(sent.limit)
            /\ (sent.query = <<>> \/ sent.query[Len(sent.query)] # ";")
            /\ GivenQuery = ex_test4 => sent.query = ex_test4

\* SELECT x LIMIT 5 requested with limit 2 is sent as it is and returns 5 rows.
C17_Witness ==
    /\ Answered("execute_select")
    /\ QueryArg = PyStr(ch_select_x \o ch_limit_5)
    /\ handled.arguments.limit = PyInt(2)
    /\ Len(trace.executed) = 1
    /\ trace.executed[1].query = ch_select_x \o ch_limit_5
    /\ Returned("Query executed successfully. Returned {len(results)} rows",
                [rows |-> 5])

\* C18: every result returned for a failure (validation rejection, unknown
\* tool, connection failure, execution failure) has its error indicator set
\* and every result of a successful call has it unset.
C18_ErrorIndicatorTellsFailure ==
    response # NoResponse =>
        (isError(response)
            <=> (response.kind = "fault" \/ response.content.text \in FailureTexts))

\* C19: validate_query rejects the empty text and every whitespace-only text
\* with the empty-query reason; execute_select without a query argument, or
\* with such a text, returns that rejection without touching the database.
C19_EmptyQueryRejected ==
    (/\ Answered("execute_select")
     /\ IsInt(LimitArg)
     /\ \/ handled.arguments.query = Absent
        \/ /\ IsStr(handled.arguments.query)
           /\ \A i \in 1..Len(handled.arguments.query.str) :
                  handled.arguments.query.str[i] \in Whitespace)
        => /\ Returned("Query validation failed: {error_msg}",
                       Verdict(FALSE, "Empty query not allowed", <<>>))
           /\ trace = NoTrace

\* execute_select without a query argument, on an open connection.
C19_Witness ==
    /\ Answered("execute_select")
    /\ handled.arguments.query = Absent
    /\ connection = "open"
    /\ Returned("Query validation failed: {error_msg}",
                Verdict(FALSE, "Empty query not allowed", <<>>))
    /\ trace = NoTrace

\* C20: validate_query rejects every text starting with SELECT that holds an
\* injection pattern in any letter case: a -- comment, a /*...*/ block
\* comment, UNION whitespace SELECT, quote OR quote, a quote followed by a
\* semicolon, xp_cmdshell, sp_executesql.
C20_InjectionPatternRejected ==
    (/\ input.kind = "query"
     /\ verdict # NoVerdict
     /\ startswith(upper(strip(input.text)), kw_SELECT)
     /\ \/ InjectionMatch(upper(input.text))
        \/ \E i \in 1..Len(input.text) :
              /\ MatchAt(input.text, i, <<"/", "*">>)
              /\ \E j \in (i + 2)..Len(input.text) :
                    MatchAt(input.text, j, <<"*", "/">>))
        => ~verdict.is_valid

\* C21: validate_query and sanitize_table_name are deterministic: the
\* verdict of a text (accepted flag and reason) is the same in every run of
\* the program, whatever order that run's BLOCKED_KEYWORDS set iterates in,
\* and an evaluation leaves the cached credentials and the connection alone.
C21_SameVerdictInEveryRun ==
    verdict # NoVerdict =>
        /\ \A order \in KeywordOrders :
              verdict = (IF input.kind = "query"
                         THEN validate_query(input.text, order)
                         ELSE sanitize_table_name(input.text))
        /\ db_credentials = NoCreds
        /\ connection = "None"

\* C22: no accepted query delivers more than one statement to the database:
\* the text execute_query sends for an execute_select call holds no
\* semicolon with statement text on both sides of it.
C22_OneStatementSent ==
    Answered("execute_select") =>
        \A i \in 1..Len(trace.executed) :
            Cardinality({stmt \in Statements(trace.executed[i].query) :
                            strip(stmt) # <<>>}) <= 1

\* The five rules of validate_query, each as a condition on the text alone.
IsBlank(text) == \A i \in 1..Len(text) : text[i] \in Whitespace

HasSelectPrefix(text) == startswith(strip(upper(text)), kw_SELECT)

HasBlockedKeyword(text) ==
    \E k \in 1..Len(BLOCKED_KEYWORDS) : contains(upper(text), BLOCKED_KEYWORDS[k])

HasInjectionPattern(text) == InjectionMatch(upper(text))

HasManySemicolons(text) == count(text, ";") > 1

\* C23: validate_query evaluates its rules in the order empty text, SELECT
\* prefix, denylisted keyword, injection pattern, semicolon count and
\* returns the reason of the first rule that fails; the query of the
\* repository's rejection test, which fails two rules, is reported with the
\* only-SELECT reason.
C23_FirstFailingRuleReported ==
    (input.kind = "query" /\ verdict # NoVerdict) =>
        /\ verdict.error_message =
              (CASE IsBlank(input.text) -> "Empty query not allowed"
                 [] ~IsBlank(input.text) /\ ~HasSelectPrefix(input.text)
                        -> "Only SELECT queries are allowed"
                 [] HasSelectPrefix(input.text) /\ HasBlockedKeyword(input.text)
                        -> "Blocked keyword '{keyword}' found in query"
                 [] /\ HasSelectPrefix(input.text)
                    /\ ~HasBlockedKeyword(input.text)
                    /\ HasInjectionPattern(input.text)
                        -> "Potentially malicious pattern detected"
                 [] /\ HasSelectPrefix(input.text)
                    /\ ~HasBlockedKeyword(input.text)
                    /\ ~HasInjectionPattern(input.text)
                    /\ HasManySemicolons(input.text)
                        -> "Multiple statements not allowed"
                 [] OTHER -> "")
        /\ input.text = ex_test5
              => verdict.error_message = "Only SELECT queries are allowed"

\* The query of the rejection test: no SELECT prefix and a blocked keyword,
\* reported with the reason of the prefix rule.
C23_Witness ==
    /\ input.kind = "query"
    /\ input.text = ex_test5
    /\ ~HasSelectPrefix(input.text)
    /\ HasBlockedKeyword(input.text)
    /\ verdict # NoVerdict
    /\ verdict.error_message = "Only SELECT queries are allowed"

\* A text in which a semicolon is followed, after optional whitespace, by
\* DROP, DELETE, UPDATE, INSERT, CREATE, ALTER or TRUNCATE in any letter case.
SemicolonThenMutation(text) ==
    \E k \in MUTATING_KEYWORDS : SearchSpaced(upper(text), <<";">>, k)

\* C24 as stated: every text starting with SELECT in which a semicolon is
\* followed by a mutating keyword is rejected, and the rule that rejects it
\* is the semicolon-then-mutating-keyword injection pattern.
C24_RejectedByInjectionPattern ==
    (/\ input.kind = "query"
     /\ verdict # NoVerdict
     /\ HasSelectPrefix(input.text)
     /\ SemicolonThenMutation(input.text))
        => /\ ~verdict.is_valid
           /\ verdict.error_message = "Potentially malicious pattern detected"

\* C24 amended: every such text is rejected, and the rule that rejects it is
\* the denylisted-keyword rule, naming a keyword the text holds.
C24_RejectedByKeywordRule ==
    (/\ input.kind = "query"
     /\ verdict # NoVerdict
     /\ HasSelectPrefix(input.text)
     /\ SemicolonThenMutation(input.text))
        => /\ ~verdict.is_valid
           /\ verdict.error_message = "Blocked keyword '{keyword}' found in query"
           /\ contains(upper(input.text), verdict.keyword)

\* The spec's example, rejected for the keyword DROP.
C24_Witness ==
    /\ input.kind = "query"
    /\ input.text = ex_stacked
    /\ verdict = Verdict(FALSE, "Blocked keyword '{keyword}' found in query", kw_DROP)

\* The conditions under which the spec says a text is accepted.
IsCleanSelect(text) ==
    /\ ~IsBlank(text)
    /\ HasSelectPrefix(text)
    /\ ~HasBlockedKeyword(text)
    /\ ~HasInjectionPattern(text)
    /\ count(text, ";") <= 1

\* C25: validate_query accepts, with an empty reason, exactly the texts that
\* are non-blank, start with SELECT after trimming and upper-casing, hold no
\* denylisted keyword, match no injection pattern and hold at most one
\* semicolon; a text with more than one semicolon is rejected; an accepted
\* text goes on to the database, and the query of the repository's SELECT
\* test is accepted and executed as given.
C25_AcceptedExactlyWhenClean ==
    (/\ Answered("execute_select")
     /\ IsStr(handled.arguments.query)
     /\ IsInt(LimitArg))
        => LET text == QueryArg.str
               rejected == ReturnedText("Query validation failed: {error_msg}")
           IN  /\ IsCleanSelect(text) <=> ~rejected
               /\ IsCleanSelect(text)
                    => /\ validate_query(text, keyword_order) = Verdict(TRUE, "", <<>>)
                       /\ TouchedDatabase
               /\ rejected
                    => /\ response.content.detail = validate_query(text, keyword_order)
                       /\ ~response.content.detail.is_valid
                       /\ response.content.detail.error_message # ""
                       /\ ~TouchedDatabase
               /\ HasManySemicolons(text) => rejected
               /\ text = ex_test4
                    => /\ ~rejected
                       /\ \A i \in 1..Len(trace.executed) :
                              trace.executed[i].query = ex_test4

\* The query of the SELECT test, accepted, executed and answered with its
\* three rows.
C25_Witness ==
    /\ Answered("execute_select")
    /\ QueryArg = PyStr(ex_test4)
    /\ IsCleanSelect(ex_test4)
    /\ Len(trace.executed) = 1
    /\ trace.executed[1].query = ex_test4
    /\ Returned("Query executed successfully. Returned {len(results)} rows",
                [rows |-> 3])

\* What a retry loop sleeps after n failed attempts that were each followed
\* by another attempt: delays doubling from 1.
DoublingDelays(n) == SubSeq(<<1, 2, 4, 8, 16>>, 1, n)

IsSecretFailure(answer) == answer = "ClientError"

IsConnectFailure(answer) == answer = "psycopg.Error"

\* The failure results a tool returns when get_connection gave up.
ConnectionFailedResults ==
    {[kind |-> "result",
      content |-> TextContent(text,
          Raise("Exception",
                "Failed to connect to database after {max_retries} attempts: {e}"))] :
        text \in {"Query execution failed: {str(e)}", "Failed to get tables: {str(e)}",
                  "Failed to describe table: {str(e)}",
                  "Failed to count records: {str(e)}"}}

\* C26: get_connection retries like get_secret: a call makes at most
\* max_retries connect attempts, sleeping 1, 2, ... between failed attempts
\* and not after the last; when every attempt fails the tool returns the
\* connection-failed error as its result and no usable handle is kept; a
\* call that finds no usable handle and cached credentials connects without
\* asking the secrets backend, its delays starting from 1 again.
C26_ConnectRetryPolicy ==
    [][Handles =>
        LET max_retries == startup.db_manager.max_retries
            secret_failures == Len(SelectSeq(trace'.answers, IsSecretFailure))
            connect_failures == Len(SelectSeq(trace'.answers, IsConnectFailure))
        IN  /\ trace'.connect_calls <= max_retries
            /\ connect_failures <= trace'.connect_calls
            /\ trace'.sleeps =
                  DoublingDelays(Min(secret_failures, max_retries - 1))
                      \o DoublingDelays(Min(connect_failures, max_retries - 1))
            /\ connect_failures = max_retries
                  => /\ trace'.connect_calls = max_retries
                     /\ response' \in ConnectionFailedResults
                     /\ connection' \notin NotClosed
                     /\ connection' = connection
                     /\ trace'.executed = <<>>
            /\ response' \in ConnectionFailedResults
                  => connect_failures = max_retries
            /\ (db_credentials = Creds /\ trace'.connect_calls > 0)
                  => /\ connection \notin NotClosed
                     /\ trace'.secret_calls = 0
                     /\ db_credentials' = Creds]_vars

\* A call made with cached credentials and no usable handle uses the whole
\* budget: three failed connects, delays 1 and 2, the connection-failed
\* error returned as the result, no handle kept.
C26_Witness ==
    /\ Answered("describe_table")
    /\ response \in ConnectionFailedResults
    /\ db_credentials = Creds
    /\ trace.secret_calls = 0
    /\ trace.connect_calls = 3
    /\ trace.sleeps = <<1, 2>>
    /\ connection = "closed"

\* C28: every name sanitize_table_name accepts consists only of ASCII
\* letters, digits and underscores and is at most 63 characters long: no
\* accepted name holds whitespace, a line break, a quote, a dot or a
\* semicolon.
C28_AcceptedNamesArePlain ==
    (input.kind = "table_name" /\ verdict # NoVerdict /\ verdict.is_valid)
        => /\ Len(input.text) <= MAX_TABLE_NAME_LEN
           /\ \A i \in 1..Len(input.text) :
                  \/ IsAlpha(input.text[i])
                  \/ IsDigit(input.text[i])
                  \/ input.text[i] = "_"

\* The invocations whose coroutine is inside a call into the network.
InsideHandler == {i \in Invocations : tasks.pc[i] \in BlockingCalls}

\* C27: overlapping tool invocations do not interleave inside the server:
\* at most one handler is inside a call into the network, so at most one
\* statement is in flight; the manager holds at most one open connection and
\* every open connection is the one it holds (none replaced, none leaked);
\* a connect is under way only while no open handle is held; and the cached
\* credentials were fetched once.
C27_InvocationsDoNotInterleave ==
    tasks # NoTasks =>
        /\ Cardinality(InsideHandler) <= 1
        /\ Cardinality({i \in Invocations : tasks.pc[i] = "execute"}) <= 1
        /\ tasks.handles <= 1
        /\ tasks.handles = 1 <=> connection \in NotClosed
        /\ (\E i \in Invocations : tasks.pc[i] = "connect")
              => connection \notin NotClosed
        /\ tasks.fetches <= 1
        /\ tasks.fetches = 1 <=> db_credentials = Creds
        /\ (\E i \in Invocations : tasks.pc[i] = "fetch")
              => db_credentials = NoCreds

\* Three invocations overlap: one has been answered after it fetched the
\* credentials and connected, one has a statement in flight on that
\* connection, one is issued and waits for the event loop.
C27_Witness ==
    /\ tasks # NoTasks
    /\ \E i, j, k \in Invocations :
          /\ tasks.pc[i] = "done"
          /\ tasks.pc[j] = "execute"
          /\ tasks.pc[k] = "issued"
    /\ tasks.handles = 1
    /\ tasks.fetches = 1
    /\ connection = "open"

====
